---- MODULE Spec2Model ----
(***************************************************************************)
(* A model of dependency_view.py: the index parser, the manifest parser,   *)
(* the recursive dependency resolver with its pkgs_in_tree list, and the   *)
(* DOT renderer.  Python strings are TLA+ strings; Python lists are        *)
(* sequences; a dict is a function on its key set.                         *)
(***************************************************************************)
EXTENDS Integers, Sequences, FiniteSets, TLC

\* ------------------------------------------------------------ bounds
\* Longest index document (in lines) handed to parse_package_list.
MaxLines == 2
\* Number of top-level runs (build_package + build_dependency_tree + plot)
\* made in one Python process.
MaxCalls == 2
\* Total number of ">merge" lines over all manifests of the repository.
MaxEdges == 4
\* Number of ">merge" lines in one manifest.
MaxDeps == 2

\* ------------------------------------------------------------ constants
URL_ROOT == "http://dev.lsstcorp.org/dmspkgs"
TitleMarker == "EUPS distribution"
MergePrefix == ">merge"
MergeKey == ">merge pkg="

\* ------------------------------------------------------------ str methods
Char(s, i) == SubSeq(s, i, i)

\* str.startswith
StartsWith(s, p) == Len(s) >= Len(p) /\ SubSeq(s, 1, Len(p)) = p

\* The characters str.split() and str.strip() treat as whitespace in the
\* byte strings of Python 2 (the program imports urllib2): space, \t, \n,
\* \r, form feed (0x0c) and vertical tab (0x0b).  TLA+ has no escape for
\* the vertical tab, so VTab holds the character itself.
VTab == ""

Whitespace == {" ", "\t", "\n", "\r", "\f", VTab}

RECURSIVE LStripFrom(_, _)
LStripFrom(s, i) ==
    IF i <= Len(s) /\ Char(s, i) \in Whitespace
    THEN LStripFrom(s, i + 1)
    ELSE SubSeq(s, i, Len(s))

RECURSIVE RStripTo(_, _)
RStripTo(s, j) ==
    IF j >= 1 /\ Char(s, j) \in Whitespace
    THEN RStripTo(s, j - 1)
    ELSE SubSeq(s, 1, j)

\* str.strip()
Strip(s) == LStripFrom(RStripTo(s, Len(s)), 1)

\* str.split() with no separator: the maximal runs of non-whitespace.
\* i is the scan position, start where the token being read began (0 when
\* between tokens), acc the tokens so far.
RECURSIVE SplitScan(_, _, _, _)
SplitScan(s, i, start, acc) ==
    IF i > Len(s)
    THEN IF start = 0 THEN acc ELSE Append(acc, SubSeq(s, start, Len(s)))
    ELSE IF Char(s, i) \in Whitespace
         THEN SplitScan(s, i + 1, 0,
                        IF start = 0 THEN acc ELSE Append(acc, SubSeq(s, start, i - 1)))
         ELSE SplitScan(s, i + 1, IF start = 0 THEN i ELSE start, acc)

Split(s) == SplitScan(s, 1, 0, <<>>)

\* str.find(sep) + 1: the 1-based position of the first occurrence, 0 if none.
RECURSIVE FindFrom(_, _, _)
FindFrom(s, sep, i) ==
    IF i + Len(sep) - 1 > Len(s) THEN 0
    ELSE IF SubSeq(s, i, i + Len(sep) - 1) = sep THEN i
    ELSE FindFrom(s, sep, i + 1)

\* s.split(sep, 1)[-1]: what follows the first sep, or all of s without one.
AfterFirst(s, sep) ==
    LET k == FindFrom(s, sep, 1)
    IN  IF k = 0 THEN s ELSE SubSeq(s, k + Len(sep), Len(s))

\* ------------------------------------------------------------ dicts
EmptyDict == [k \in {} |-> k]

\* d[k] = v
Put(d, k, v) == [x \in DOMAIN d \cup {k} |-> IF x = k THEN v ELSE d[x]]

\* ------------------------------------------------------------ parse_package_list
\* tokens[1:] of a 4-token list, as a tuple
TokensTail(tokens) == SubSeq(tokens, 2, Len(tokens))

\* The title test of line 90; reading raw_data[0] of an empty list raises.
HasTitle(raw_data) == StartsWith(raw_data[1], TitleMarker)

\* Lines 90-91: the list object the loop (and the caller) sees afterwards.
PopTitle(raw_data) ==
    IF HasTitle(raw_data) THEN SubSeq(raw_data, 2, Len(raw_data)) ELSE raw_data

\* A loop body that keeps the entry a name already has.
ParseLineKeepFirst(packages, line) ==
    IF StartsWith(line, "#") THEN packages
    ELSE LET tokens == Split(line)
         IN  IF Len(tokens) \in {3, 4} /\ tokens[1] \in DOMAIN packages
             THEN packages
             ELSE IF Len(tokens) = 4
             THEN Put(packages, tokens[1], TokensTail(tokens))
             ELSE IF Len(tokens) = 3
             THEN Put(packages, tokens[1], TokensTail(Append(tokens, "")))
             ELSE packages

\* One pass of the loop body, lines 95-113.
ParseLine(packages, line) ==
    IF StartsWith(line, "#") THEN packages
    ELSE LET tokens == Split(line)
         IN  IF Len(tokens) = 4
             THEN Put(packages, tokens[1], TokensTail(tokens))
             ELSE IF Len(tokens) = 3
             THEN Put(packages, tokens[1], TokensTail(Append(tokens, "")))
             ELSE packages

RECURSIVE ParseLines(_, _, _)
ParseLines(lines, i, packages) ==
    IF i > Len(lines) THEN packages
    ELSE ParseLines(lines, i + 1, ParseLine(packages, lines[i]))

\* parse_package_list(raw_data): what it raises ("" for a normal return), the
\* dict it returns, and the caller's list object after the call.
ParsePackageList(raw_data) ==
    IF Len(raw_data) = 0
    THEN [raised |-> "IndexError", packages |-> EmptyDict, raw_data |-> raw_data]
    ELSE LET lines == PopTitle(raw_data)
         IN  [raised |-> "", packages |-> ParseLines(lines, 1, EmptyDict),
              raw_data |-> lines]

\* ------------------------------------------------------------ parse_dependency_list
\* Lines 134-135 read pkg_name.split()[0], which raises on a blank remainder.
MergeTokens(line) == Split(AfterFirst(Strip(line), MergeKey))

\* The loop of lines 130-137 from line i on; parents is the list so far.
RECURSIVE ParseDeps(_, _, _)
ParseDeps(lines, i, parents) ==
    IF i > Len(lines) THEN [raised |-> "", parents |-> parents]
    ELSE IF ~StartsWith(lines[i], MergePrefix)
    THEN ParseDeps(lines, i + 1, parents)
    ELSE IF Len(MergeTokens(lines[i])) = 0
    THEN [raised |-> "IndexError", parents |-> parents]
    ELSE LET pkg_name == MergeTokens(lines[i])[1]
         IN  ParseDeps(lines, i + 1,
                       IF pkg_name # "" THEN Append(parents, pkg_name) ELSE parents)

ParseDependencyList(raw_data) == ParseDeps(raw_data, 1, <<>>)

\* ------------------------------------------------------------ the repository
\* The document behind URL_ROOT/current.list.
CurrentList ==
    << "EUPS distribution current version list. Version 1.0\n",
       "#pkg flavor version\n",
       "a generic 1.0\n",
       "b generic 2.0 external\n",
       "c Linux64 1.1\n",
       "d Linux64 3.0 external\n" >>

\* A package name that current.list does not hold.
Absent == "zz"

\* ------------------------------------------------------------ Package
\* Package.__init__, lines 37-51; parents is a list of references (heap indices).
Package(name, version, parents, arch, dir_name, base_url) ==
    [name |-> name, version |-> version, architecture |-> arch,
     dir_name |-> dir_name, base_url |-> base_url, parents |-> parents,
     url |-> base_url
             \o (IF dir_name # "" THEN "/" \o dir_name ELSE "")
             \o "/" \o name \o "/" \o version
             \o (IF arch # "generic" THEN "/" \o arch ELSE "")]

\* build_package, lines 141-145, for a name the list holds; parents and
\* base_url take their defaults.
BuildPackage(name, list) ==
    Package(name, list[name][2], <<>>, list[name][1], list[name][3], URL_ROOT)

\* Line 162
ManifestUrl(pkg) == pkg.url \o "/the.manifest"

\* ------------------------------------------------------------ state
VARIABLES
    pkgs_in_tree,  \* the list object made once for the default of line 148
    heap,          \* the Package objects of the current run; heap[1] is root
    stack,         \* build_dependency_tree frames: [pkg, i], i = 0 before line 166
    status,        \* where the current run is, or how it ended
    calls,         \* runs started in this process
    pkg_name,      \* sys.argv[1] of the current run
    pkg_list,      \* the dict of line 235
    fetched,       \* the calls of fetch_url in the current run: [url, raised]
    assigned,      \* the objects whose parents line 163 has bound, in order
    plot,          \* the strings lines 186-215 concatenate, in order
    manifests,     \* what the manifests served so far declare, by URL
    entry_list,    \* pkgs_in_tree as it was when the current run began
    document,      \* an index or manifest document, as its owner wrote it
    raw_data,      \* the caller's list object holding that document
    returns        \* what the parser calls made on that list gave

vars == << pkgs_in_tree, heap, stack, status, calls, pkg_name, pkg_list, fetched,
           assigned, plot, manifests, entry_list, document, raw_data, returns >>

resolverVars == << pkgs_in_tree, heap, stack, status, calls, pkg_name, pkg_list, fetched,
                   assigned, plot, manifests, entry_list >>

parserVars == << document, raw_data, returns >>

\* ------------------------------------------------------------ manifests served
MergeLine(name) == MergeKey \o name \o "\n"

\* A manifest declaring deps, in order, closed by the >self directive.
ManifestOf(deps) == [i \in 1..Len(deps) |-> MergeLine(deps[i])] \o << ">self\n" >>

\* Names matter to the resolver only through equality and through the URL,
\* which differs for different names, so the names given by command lines and
\* manifests are enumerated up to renaming: each is a name given before, the
\* absent name, or the first name of current.list not given yet.
IndexOrder == << "a", "b", "c", "d" >>

Declared(served) ==
    UNION { { served[u][k] : k \in 1..Len(served[u]) } : u \in DOMAIN served }

Named(served, list, argv1) ==
    { n \in DOMAIN list :
        \/ n = argv1
        \/ n \in Declared(served)
        \/ ManifestUrl(BuildPackage(n, list)) \in DOMAIN served }

Offered(named) ==
    named \cup {Absent}
      \cup { IndexOrder[j] : j \in { i \in 1..Len(IndexOrder) :
                                       /\ IndexOrder[i] \notin named
                                       /\ \A h \in 1..(i - 1) : IndexOrder[h] \in named } }

\* The dependency lists of at most k names a manifest may declare.  Lines
\* 163-164 stop at the first name current.list lacks, so the lists offered
\* end there.
RECURSIVE DepLists(_, _)
DepLists(k, named) ==
    IF k = 0 THEN { <<>> }
    ELSE { <<>>, << Absent >> } \cup
         UNION { { << n >> \o rest : rest \in DepLists(k - 1, named \cup {n}) } :
                 n \in Offered(named) \ {Absent} }

RECURSIVE DeclaredTotal(_, _)
DeclaredTotal(served, urls) ==
    IF urls = {} THEN 0
    ELSE LET u == CHOOSE x \in urls : TRUE
         IN  Len(served[u]) + DeclaredTotal(served, urls \ {u})

\* What the repository may hold behind a URL not fetched before: the names
\* its manifest declares.
Min(x, y) == IF x < y THEN x ELSE y

NewManifests(served, named) ==
    DepLists(Min(MaxDeps, MaxEdges - DeclaredTotal(served, DOMAIN served)), named)

\* fetch_url(url), lines 65-68: the possible outcomes, each with the lines
\* read (data) and the declaration list of the manifest behind them (holds).
\* A URL served before serves the same document again.
FetchUrl(url, served, named) ==
    { [raised |-> "URLError", data |-> <<>>, holds |-> <<>>] }
      \cup { [raised |-> "", data |-> ManifestOf(deps), holds |-> deps] :
               deps \in IF url \in DOMAIN served THEN {served[url]}
                        ELSE NewManifests(served, named) }

\* ------------------------------------------------------------ build_dependency_tree
\* Line 166 tests a Package object against a list of str; Package defines
\* no __eq__, so no element is ever equal to it.
PkgInList(pkg, list) == FALSE

\* A line 171 that tests the object as line 166 does.
NameInListAsObject(name, list) == FALSE

\* Line 171
NameInList(name, list) == \E k \in 1..Len(list) : list[k] = name

Top == stack[Len(stack)]

\* The references the comprehension of lines 163-164 gives the new objects.
NewRefs(h, n) == [k \in 1..n |-> Len(h) + k]

\* Lines 163-164 with a child built only for the names the list lacks, once each.
LinkParentsUnvisited(h, ref, names, list) ==
    LET kept == { k \in 1..Len(names) :
                    /\ ~NameInList(names[k], pkgs_in_tree)
                    /\ \A j \in 1..(k - 1) : names[j] # names[k] }
        pick == SelectSeq([k \in 1..Len(names) |-> k], LAMBDA k : k \in kept)
    IN  [k \in 1..Len(h) |->
            IF k = ref THEN [h[k] EXCEPT !.parents = NewRefs(h, Len(pick))] ELSE h[k]]
          \o [k \in 1..Len(pick) |-> BuildPackage(names[pick[k]], list)]

\* heap after lines 163-164 for the object at ref: the new objects allocated
\* and bound to its parents attribute.
LinkParents(h, ref, names, list) ==
    [k \in 1..Len(h) |->
        IF k = ref THEN [h[k] EXCEPT !.parents = NewRefs(h, Len(names))] ELSE h[k]]
      \o [k \in 1..Len(names) |-> BuildPackage(names[k], list)]

\* Lines 166-167 with the test of line 166 inverted.
MarkVisitedInverted(pkg, list) ==
    IF PkgInList(pkg, list) THEN Append(list, pkg.name) ELSE list

\* Lines 166-167
MarkVisited(pkg, list) ==
    IF ~PkgInList(pkg, list) THEN Append(list, pkg.name) ELSE list

Ended == status \in {"idle", "plotted", "exit2", "URLError", "KeyError", "IndexError"}

\* Lines 226-235: a run begins, list being the dict line 235 binds to
\* pkg_list.  Only the module-level default list survives from an earlier run.
Begin(name, list) ==
    /\ Ended
    /\ calls < MaxCalls
    /\ calls' = calls + 1
    /\ pkg_name' = name
    /\ pkg_list' = list
    /\ fetched' = <<>>
    /\ assigned' = <<>>
    /\ plot' = <<>>
    /\ entry_list' = pkgs_in_tree
    /\ UNCHANGED << pkgs_in_tree, manifests >>
    /\ UNCHANGED parserVars

\* Lines 243-246 entered: root built, build_dependency_tree called on it.
CallOnRoot(name) ==
    /\ status' = "running"
    /\ heap' = << BuildPackage(name, pkg_list') >>
    /\ stack' = << [pkg |-> 1, i |-> 0] >>

\* How the run ends before any Package exists.
ExitEarly(how) ==
    /\ status' = how
    /\ heap' = <<>>
    /\ stack' = <<>>

\* A main without lines 238-240: build_package meets the unknown name.
MainUnchecked(name, list) ==
    /\ Begin(name, list)
    /\ IF name \notin DOMAIN pkg_list' THEN ExitEarly("KeyError") ELSE CallOnRoot(name)

\* Lines 226-246: one run up to the call of build_dependency_tree.
Main(name, list) ==
    /\ Begin(name, list)
    /\ IF name \notin DOMAIN pkg_list' THEN ExitEarly("exit2") ELSE CallOnRoot(name)

\* What lines 162-164 raise ("" for nothing) given the outcome of fetch_url:
\* URLError from fetch_url, IndexError from parse_dependency_list, KeyError
\* from build_package.
Raises(res, list) ==
    LET deps == ParseDependencyList(res.data)
    IN  IF res.raised # "" THEN res.raised
        ELSE IF deps.raised # "" THEN deps.raised
        ELSE IF \E k \in 1..Len(deps.parents) : deps.parents[k] \notin DOMAIN list
        THEN "KeyError"
        ELSE ""

\* The call of fetch_url is made, and the repository has shown a document.
Fetched(res) ==
    /\ fetched' = Append(fetched, [url |-> ManifestUrl(heap[Top.pkg]), raised |-> res.raised])
    /\ manifests' = IF res.raised = "" /\ ManifestUrl(heap[Top.pkg]) \notin DOMAIN manifests
                    THEN manifests @@ (ManifestUrl(heap[Top.pkg]) :> res.holds)
                    ELSE manifests
    /\ UNCHANGED << calls, pkg_name, pkg_list, plot, entry_list >>
    /\ UNCHANGED parserVars

\* An exception path on which the name was put in the list before the fetch.
AbortMarked(exc) ==
    /\ status' = exc
    /\ stack' = <<>>
    /\ pkgs_in_tree' = Append(pkgs_in_tree, heap[Top.pkg].name)
    /\ UNCHANGED << heap, assigned >>

\* The exception leaves every frame; nothing was bound or appended.
Abort(exc) ==
    /\ status' = exc
    /\ stack' = <<>>
    /\ UNCHANGED << heap, pkgs_in_tree, assigned >>

\* Lines 163-167 completed for the given names; the loop of line 170 is next.
Bind(names) ==
    /\ heap' = LinkParents(heap, Top.pkg, names, pkg_list)
    /\ assigned' = Append(assigned, Top.pkg)
    /\ pkgs_in_tree' = MarkVisited(heap[Top.pkg], pkgs_in_tree)
    /\ stack' = [stack EXCEPT ![Len(stack)].i = 1]
    /\ UNCHANGED status

\* Lines 162-167 with a fetch error caught and read as an empty manifest.
ExpandSwallowing(res) ==
    /\ Fetched(res)
    /\ IF res.raised # "" THEN Bind(<<>>)
       ELSE IF Raises(res, pkg_list) # "" THEN Abort(Raises(res, pkg_list))
       ELSE Bind(ParseDependencyList(res.data).parents)

\* Lines 162-167 with the names current.list lacks left out of the comprehension.
ExpandSkippingUnknown(res) ==
    /\ Fetched(res)
    /\ IF res.raised # "" THEN Abort(res.raised)
       ELSE Bind(SelectSeq(ParseDependencyList(res.data).parents,
                           LAMBDA n : n \in DOMAIN pkg_list))

\* Lines 162-167 of the call on top of the stack, given what fetch_url did.
Expand(res) ==
    LET exc == Raises(res, pkg_list)
    IN  /\ Fetched(res)
        /\ IF exc # "" THEN Abort(exc)
           ELSE Bind(ParseDependencyList(res.data).parents)

Fetch ==
    /\ status = "running"
    /\ Top.i = 0
    /\ \E res \in FetchUrl(ManifestUrl(heap[Top.pkg]), manifests,
                             Named(manifests, pkg_list, pkg_name)) : Expand(res)

\* Lines 170-172: the parent at the loop position is in the list.
Continue ==
    /\ status = "running"
    /\ Top.i >= 1
    /\ Top.i <= Len(heap[Top.pkg].parents)
    /\ NameInList(heap[heap[Top.pkg].parents[Top.i]].name, pkgs_in_tree)
    /\ stack' = [stack EXCEPT ![Len(stack)].i = Top.i + 1]
    /\ UNCHANGED << pkgs_in_tree, heap, status, calls, pkg_name, pkg_list, fetched, assigned, plot,
                    manifests, entry_list >>
    /\ UNCHANGED parserVars

\* Lines 170-174: the parent at the loop position is not in the list.
Recurse ==
    /\ status = "running"
    /\ Top.i >= 1
    /\ Top.i <= Len(heap[Top.pkg].parents)
    /\ ~NameInList(heap[heap[Top.pkg].parents[Top.i]].name, pkgs_in_tree)
    /\ stack' = Append([stack EXCEPT ![Len(stack)].i = Top.i + 1],
                       [pkg |-> heap[Top.pkg].parents[Top.i], i |-> 0])
    /\ UNCHANGED << pkgs_in_tree, heap, status, calls, pkg_name, pkg_list, fetched, assigned, plot,
                    manifests, entry_list >>
    /\ UNCHANGED parserVars

\* Line 175; the return of the outermost call hands control back to line 249.
Return ==
    /\ status = "running"
    /\ Top.i > Len(heap[Top.pkg].parents)
    /\ stack' = SubSeq(stack, 1, Len(stack) - 1)
    /\ status' = IF Len(stack) = 1 THEN "built" ELSE "running"
    /\ UNCHANGED << pkgs_in_tree, heap, calls, pkg_name, pkg_list, fetched, assigned, plot,
                    manifests, entry_list >>
    /\ UNCHANGED parserVars

\* ------------------------------------------------------------ plot_dependency_tree
\* EL_TEMPLATE % (name, name), line 25
NodeDecl(name) ==
    "  \"" \o name \o "\" [label = \"{<head> " \o name
      \o " | <end>}\"\n     shape = \"record\"];\n"

\* Lines 208-209
EdgeDecl(child, parent) ==
    "  \"" \o child \o "\":head -> \"" \o parent \o "\":end [id = 0];\n"

\* The first loop of _plot_parents, lines 206-209, from parent k on.
RECURSIVE DeclLoop(_, _, _)
DeclLoop(h, child, k) ==
    IF k > Len(h[child].parents) THEN <<>>
    ELSE << NodeDecl(h[h[child].parents[k]].name),
            EdgeDecl(h[child].name, h[h[child].parents[k]].name) >>
           \o DeclLoop(h, child, k + 1)

\* A _plot_parents with one loop: each parent's subtree follows its edge.
RECURSIVE PlotParentsInterleaved(_, _)
RECURSIVE InterleavedLoop(_, _, _)
InterleavedLoop(h, child, k) ==
    IF k > Len(h[child].parents) THEN <<>>
    ELSE << NodeDecl(h[h[child].parents[k]].name),
            EdgeDecl(h[child].name, h[h[child].parents[k]].name) >>
           \o PlotParentsInterleaved(h, h[child].parents[k])
           \o InterleavedLoop(h, child, k + 1)

PlotParentsInterleaved(h, child) == InterleavedLoop(h, child, 1)

\* _plot_parents, lines 203-215; RecurseLoop is its second loop from parent k on.
RECURSIVE PlotParents(_, _)
RECURSIVE RecurseLoop(_, _, _)
RecurseLoop(h, child, k) ==
    IF k > Len(h[child].parents) THEN <<>>
    ELSE PlotParents(h, h[child].parents[k]) \o RecurseLoop(h, child, k + 1)

\* _plot_parents without its second loop.
PlotParentsFlat(h, child) == DeclLoop(h, child, 1)

PlotParents(h, child) == DeclLoop(h, child, 1) \o RecurseLoop(h, child, 1)

\* plot_dependency_tree, lines 186-200
PlotDependencyTree(h, pkg, title) ==
    << "digraph \"" \o title \o "\" {\n", " graph [rankdir = \"BT\"];\n",
       NodeDecl(h[pkg].name) >>
      \o PlotParents(h, pkg) \o << "}\n" >>

\* Lines 249-250
Plot ==
    /\ status = "built"
    /\ plot' = PlotDependencyTree(heap, 1, "Dependencies for " \o heap[1].name)
    /\ status' = "plotted"
    /\ UNCHANGED << pkgs_in_tree, heap, stack, calls, pkg_name, pkg_list, fetched,
                    assigned, manifests, entry_list >>
    /\ UNCHANGED parserVars

\* ------------------------------------------------------------ the resolver's runs
Init ==
    /\ pkgs_in_tree = <<>>
    /\ heap = <<>>
    /\ stack = <<>>
    /\ status = "idle"
    /\ calls = 0
    /\ pkg_name = ""
    /\ pkg_list = EmptyDict
    /\ fetched = <<>>
    /\ assigned = <<>>
    /\ plot = <<>>
    /\ manifests = EmptyDict
    /\ entry_list = <<>>
    /\ document = <<>>
    /\ raw_data = <<>>
    /\ returns = <<>>

\* The process is given a package name and makes a run: current.list is
\* fetched and parsed (line 235), then lines 236-246 act on the name.
Run ==
    /\ Ended
    /\ calls < MaxCalls
    /\ \E list \in { ParsePackageList(CurrentList).packages } :
          \E name \in Offered(Named(manifests, pkg_list, pkg_name)) : Main(name, list)

Next ==
    \/ Run
    \/ Fetch
    \/ Continue
    \/ Recurse
    \/ Return
    \/ Plot

Spec == Init /\ [][Next]_vars

\* ------------------------------------------------------------ the parser's calls
IndexLines ==
    { "EUPS distribution current version list. Version 1.0\n",
      "EUPS distribution 1.0\n",
      "#pkg flavor version\n",
      "afw generic 1.0\n",
      "afw Linux64 2.0 external\n",
      "foo generic 2.0 \n",
      "bar\fgeneric 3.0\n",
      "baz" \o VTab \o "generic 4.0\n",
      "broken line\n",
      "\n" }

IndexDocs == UNION { [1..n -> IndexLines] : n \in 0..MaxLines }

ParseInit ==
    /\ document \in IndexDocs
    /\ raw_data = document
    /\ returns = <<>>
    /\ pkgs_in_tree = <<>>
    /\ heap = <<>>
    /\ stack = <<>>
    /\ status = "idle"
    /\ calls = 0
    /\ pkg_name = ""
    /\ pkg_list = EmptyDict
    /\ fetched = <<>>
    /\ assigned = <<>>
    /\ plot = <<>>
    /\ manifests = EmptyDict
    /\ entry_list = <<>>

\* One call parse_package_list(raw_data) by the owner of the list.
ParseCall ==
    /\ Len(returns) < 2
    /\ LET r == ParsePackageList(raw_data)
       IN  /\ returns' = Append(returns, [raised |-> r.raised, packages |-> r.packages])
           /\ raw_data' = r.raw_data
    /\ UNCHANGED document
    /\ UNCHANGED resolverVars

ParseNext == ParseCall

ParseSpec == ParseInit /\ [][ParseNext]_vars

\* ------------------------------------------------------------ the manifest parser's calls
ManifestLines ==
    { ">merge pkg=foo\n",
      ">merge pkg=bar extra text\n",
      ">merge pkg=qux\fextra\n",
      ">merge pkg=" \o VTab \o "\n",
      ">merge pkg=\n",
      ">merge foo\n",
      ">merge\n",
      "  >merge pkg=baz\n",
      ">self\n",
      "\n" }

ManifestDocs == UNION { [1..n -> ManifestLines] : n \in 0..MaxLines }

ManifestInit ==
    /\ document \in ManifestDocs
    /\ raw_data = document
    /\ returns = <<>>
    /\ pkgs_in_tree = <<>>
    /\ heap = <<>>
    /\ stack = <<>>
    /\ status = "idle"
    /\ calls = 0
    /\ pkg_name = ""
    /\ pkg_list = EmptyDict
    /\ fetched = <<>>
    /\ assigned = <<>>
    /\ plot = <<>>
    /\ manifests = EmptyDict
    /\ entry_list = <<>>

\* One call parse_dependency_list(raw_data); the loop only reads the list.
ManifestCall ==
    /\ Len(returns) < 1
    /\ returns' = Append(returns, ParseDependencyList(raw_data))
    /\ UNCHANGED << document, raw_data >>
    /\ UNCHANGED resolverVars

ManifestNext == ManifestCall

ManifestSpec == ManifestInit /\ [][ManifestNext]_vars

\* ------------------------------------------------------------ the declared relation
\* The manifest URL of an indexed name.
UrlOf(n) == ManifestUrl(BuildPackage(n, pkg_list))

FetchedUrls == { fetched[i].url : i \in 1..Len(fetched) }

\* The names whose manifest the current run has asked for.
FetchedNames == { n \in DOMAIN pkg_list : UrlOf(n) \in FetchedUrls }

\* The names n's manifest declares, as far as the repository has shown it.
DeclaredBy(n) ==
    IF n \in DOMAIN pkg_list /\ UrlOf(n) \in DOMAIN manifests
    THEN { manifests[UrlOf(n)][k] : k \in 1..Len(manifests[UrlOf(n)]) }
    ELSE {}

RECURSIVE Reach(_)
Reach(S) ==
    LET T == S \cup UNION { DeclaredBy(n) : n \in S }
    IN  IF T = S THEN S ELSE Reach(T)

\* The packages reachable from the root of the current run, root included.
Reachable == Reach({pkg_name})

\* The repository holds the diamond a -> (b, c), b -> d, c -> d.
Diamond ==
    /\ {UrlOf(n) : n \in {"a", "b", "c", "d"}} \subseteq DOMAIN manifests
    /\ manifests[UrlOf("a")] = << "b", "c" >>
    /\ manifests[UrlOf("b")] = << "d" >>
    /\ manifests[UrlOf("c")] = << "d" >>
    /\ manifests[UrlOf("d")] = <<>>

\* ------------------------------------------------------------ claims
\* C1: during one run no manifest URL is handed to fetch_url twice, and no
\* package name has its parents list bound twice, whatever the relation.
C1_FetchedAndExpandedOnce ==
    /\ \A i, j \in 1..Len(fetched) : i # j => fetched[i].url # fetched[j].url
    /\ \A i, j \in 1..Len(assigned) :
          i # j => heap[assigned[i]].name # heap[assigned[j]].name

\* A run over the diamond has returned: d hangs at two places of the tree.
C1_Witness ==
    /\ status = "built"
    /\ pkg_name = "a"
    /\ Diamond
    /\ Len(fetched) = 4

\* C2: when a run's build_dependency_tree has returned, the names whose
\* manifest it fetched are exactly the packages reachable from the root.
C2_FetchedIsReachable ==
    status \in {"built", "plotted"} => FetchedNames = Reachable

\* C3: every run begins with an empty pkgs_in_tree, whatever runs came before.
C3_FreshListPerRun == calls >= 1 => entry_list = <<>>

\* ------------------------------------------------------------ termination
\* One step of the loop of lines 170-175 in the frame on top.
LoopStep == Continue \/ Recurse \/ Return

\* A call in progress is never stuck: the frame on top is about to call
\* fetch_url, which returns or raises, or its loop can take a step.
CanStep == stack # <<>> /\ (Top.i = 0 \/ ENABLED LoopStep)

\* The names of current.list that pkgs_in_tree lacks.
Unvisited == { n \in DOMAIN pkg_list : ~NameInList(n, pkgs_in_tree) }

\* What is left of the loop of lines 170-175 in the frames entered so far.
RECURSIVE LoopWork(_)
LoopWork(k) ==
    IF k = 0 THEN 0
    ELSE LoopWork(k - 1)
           + (IF stack[k].i = 0 THEN 0
              ELSE Len(heap[stack[k].pkg].parents) + 2 - stack[k].i)

\* A bound on the steps the call in progress can still take: every fetch
\* takes a name out of Unvisited, except the root's, which comes first.
Variant ==
    (MaxEdges + 2)
        * (Cardinality(Unvisited)
             + (IF Len(stack) = 1 /\ stack[1].i = 0 THEN 1 ELSE 0))
      + LoopWork(Len(stack))

\* C4: build_dependency_tree ends, cyclic and self-naming relations included:
\* a call in progress can always take a step, every step lowers Variant, and
\* parents are bound at most once per name of current.list.
C4_Terminates ==
    /\ [](/\ Len(assigned) <= Cardinality(DOMAIN pkg_list)
          /\ Variant >= 0
          /\ status = "running" => CanStep)
    /\ [][(status = "running" /\ status' = "running") => Variant' < Variant]_vars

\* A run over the cycle a -> b -> a has returned.
C4_Witness ==
    /\ status = "built"
    /\ pkg_name = "a"
    /\ {UrlOf("a"), UrlOf("b")} \subseteq DOMAIN manifests
    /\ manifests[UrlOf("a")] = << "b" >>
    /\ manifests[UrlOf("b")] = << "a" >>
    /\ Len(heap) = 3

\* ------------------------------------------------------------ the tree
\* The objects of the tree in depth-first order, parents in list order.
RECURSIVE Preorder(_, _)
RECURSIVE PreorderFrom(_, _, _)
PreorderFrom(h, ref, k) ==
    IF k > Len(h[ref].parents) THEN <<>>
    ELSE Preorder(h, h[ref].parents[k]) \o PreorderFrom(h, ref, k + 1)

Preorder(h, ref) == << ref >> \o PreorderFrom(h, ref, 1)

Occurrences(n) == { k \in 1..Len(heap) : heap[k].name = n }

Expanded == { assigned[i] : i \in 1..Len(assigned) }

\* The first object named n in depth-first order.
FirstOccurrence(n) ==
    LET order == Preorder(heap, 1)
        at == CHOOSE i \in 1..Len(order) :
                 /\ heap[order[i]].name = n
                 /\ \A j \in 1..(i - 1) : heap[order[j]].name # n
    IN  order[at]

ChildNames(k) == [i \in 1..Len(heap[k].parents) |-> heap[heap[k].parents[i]].name]

\* C5: of the objects of a finished tree that share a name, exactly the first
\* in depth-first order is expanded, with its manifest's names as children,
\* and the others have no children.
C5_FirstOccurrenceExpanded ==
    status \in {"built", "plotted"} =>
        \A n \in DOMAIN pkg_list :
            Cardinality(Occurrences(n)) >= 2 =>
                /\ Occurrences(n) \cap Expanded = { FirstOccurrence(n) }
                /\ ChildNames(FirstOccurrence(n)) = manifests[UrlOf(n)]
                /\ \A k \in Occurrences(n) \ { FirstOccurrence(n) } :
                       heap[k].parents = <<>>

\* C6: a manifest fetch that fails is the last fetch of its run, leaves no
\* frame running, and the run renders nothing.
C6_FetchFailureAborts ==
    \A i \in 1..Len(fetched) :
        fetched[i].raised # "" =>
            /\ i = Len(fetched)
            /\ status = fetched[i].raised
            /\ stack = <<>>
            /\ plot = <<>>

\* A fetch failed below the root, after the root's parents were bound.
C6_Witness ==
    /\ status = "URLError"
    /\ Len(fetched) >= 2
    /\ heap[1].parents # <<>>

\* C7: a run whose root name current.list lacks ends with exit code 2, having
\* fetched no manifest and built nothing.
C7_UnknownRootExits2 ==
    (status # "idle" /\ pkg_name \notin DOMAIN pkg_list) =>
        /\ status = "exit2"
        /\ fetched = <<>>
        /\ heap = <<>>
        /\ plot = <<>>

\* A run is given the unknown name after an earlier one went through.
C7_Witness ==
    /\ status = "exit2"
    /\ pkgs_in_tree # <<>>

\* The manifest behind the i-th fetch of the run names a package current.list lacks.
DeclaresUnknown(i) ==
    /\ fetched[i].raised = ""
    /\ \E k \in 1..Len(manifests[fetched[i].url]) :
          manifests[fetched[i].url][k] \notin DOMAIN pkg_list

\* C8: a fetched manifest that names a package current.list lacks ends the
\* run with a lookup error: it is the run's last fetch, the object it was
\* fetched for gets no child, and nothing is rendered.
C8_UnknownDependencyAborts ==
    \A i \in 1..Len(fetched) :
        DeclaresUnknown(i) =>
            /\ i = Len(fetched)
            /\ status = "KeyError"
            /\ stack = <<>>
            /\ plot = <<>>
            /\ \A k \in 1..Len(heap) :
                  ManifestUrl(heap[k]) = fetched[i].url => heap[k].parents = <<>>

\* Below the root a manifest named a known package and then an unknown one.
C8_Witness ==
    /\ status = "KeyError"
    /\ Len(fetched) >= 2
    /\ Len(manifests[fetched[Len(fetched)].url]) >= 2

\* ------------------------------------------------------------ the rendered graph
Pieces == { plot[i] : i \in 1..Len(plot) }

\* How many edge declarations x -> y the output holds.
EdgesOut(x, y) == Cardinality({ i \in 1..Len(plot) : plot[i] = EdgeDecl(x, y) })

\* How often x's manifest names y.
TimesDeclared(x, y) ==
    IF UrlOf(x) \in DOMAIN manifests
    THEN Cardinality({ k \in 1..Len(manifests[UrlOf(x)]) : manifests[UrlOf(x)][k] = y })
    ELSE 0

RECURSIVE SumDeclared(_)
SumDeclared(S) ==
    IF S = {} THEN 0
    ELSE LET x == CHOOSE n \in S : TRUE
         IN  (IF UrlOf(x) \in DOMAIN manifests THEN Len(manifests[UrlOf(x)]) ELSE 0)
               + SumDeclared(S \ {x})

\* C9: for a run begun with an empty pkgs_in_tree, the node labels of the
\* output are the reachable packages, each reachable x has one edge x -> y
\* per occurrence of y in its manifest, and there are no other edges.
C9_GraphIsRelation ==
    (status = "plotted" /\ entry_list = <<>>) =>
        /\ { n \in DOMAIN pkg_list : NodeDecl(n) \in Pieces } = Reachable
        /\ \A x, y \in DOMAIN pkg_list :
              EdgesOut(x, y) = IF x \in Reachable THEN TimesDeclared(x, y) ELSE 0
        /\ Len(plot) = 4 + 2 * SumDeclared(Reachable)

\* The diamond has been rendered.
C9_Witness ==
    /\ status = "plotted"
    /\ entry_list = <<>>
    /\ pkg_name = "a"
    /\ Diamond
    /\ EdgesOut("c", "d") = 1

\* ------------------------------------------------------------ the index parser
\* An optional title line, then comments and lines of 3 or 4 tokens.
WellFormedIndex(doc) ==
    /\ Len(doc) >= 1
    /\ \A i \in 1..Len(doc) :
          \/ i = 1 /\ StartsWith(doc[i], TitleMarker)
          \/ /\ ~StartsWith(doc[i], TitleMarker)
             /\ \/ StartsWith(doc[i], "#")
                \/ Len(Split(doc[i])) \in {3, 4}

\* C10: two calls of parse_package_list on the same list object give equal
\* results, for every well-formed index document.
C10_ParseIdempotent ==
    (Len(returns) = 2 /\ WellFormedIndex(document)) => returns[1] = returns[2]

\* C11: a call of parse_package_list leaves the caller's list as it was,
\* documents that begin with the title line included.
C11_InputUnchanged == Len(returns) >= 1 => raw_data = document

\* Line i of doc is one the loop of lines 94-113 reads an entry from.
DataLine(doc, i) ==
    /\ ~(i = 1 /\ StartsWith(doc[1], TitleMarker))
    /\ ~StartsWith(doc[i], "#")
    /\ Len(Split(doc[i])) \in {3, 4}

NameOn(line) == Split(line)[1]

\* (architecture, version, directory) as the line gives them.
FieldsOn(line) ==
    LET t == Split(line)
    IN  << t[2], t[3], IF Len(t) = 4 THEN t[4] ELSE "" >>

\* The data lines of doc that carry the name of data line i.
LinesNaming(doc, i) ==
    { j \in 1..Len(doc) : DataLine(doc, j) /\ NameOn(doc[j]) = NameOn(doc[i]) }

\* C12: a name on several data lines of the document is mapped to the fields
\* of the last of them, and the call returns normally.
C12_LastLineWins ==
    Len(returns) >= 1 =>
        \A i \in 1..Len(document) :
            (DataLine(document, i) /\ Cardinality(LinesNaming(document, i)) >= 2) =>
                /\ returns[1].raised = ""
                /\ NameOn(document[i]) \in DOMAIN returns[1].packages
                /\ \A last \in LinesNaming(document, i) :
                      (\A j \in LinesNaming(document, i) : j <= last) =>
                          returns[1].packages[NameOn(document[i])]
                              = FieldsOn(document[last])

\* A document naming afw twice, with different fields, has been parsed.
C12_Witness ==
    /\ Len(returns) >= 1
    /\ document = << "afw Linux64 2.0 external\n", "afw generic 1.0\n" >>
    /\ returns[1].packages["afw"] = << "generic", "1.0", "" >>

\* ------------------------------------------------------------ the manifest parser
\* A >merge line whose pkg= key is followed by nothing but whitespace.
EmptyName(line) == StartsWith(line, MergePrefix) /\ Strip(line) = MergeKey

\* C13: a manifest holding a ">merge pkg=" line with no name is parsed
\* without an exception, and the result is that of the manifest without
\* such lines.
C13_EmptyNameDropped ==
    (Len(returns) >= 1 /\ \E i \in 1..Len(document) : EmptyName(document[i])) =>
        /\ returns[1].raised = ""
        /\ returns[1].parents
             = ParseDependencyList(SelectSeq(document, LAMBDA l : ~EmptyName(l))).parents

\* The line reads ">merge pkg=<token>", with or without text after the token.
HasMergeForm(line) ==
    /\ StartsWith(line, MergeKey)
    /\ Len(line) > Len(MergeKey)
    /\ Char(line, Len(MergeKey) + 1) \notin Whitespace

\* The token after pkg= on a line of that form.
TokenOf(line) == Split(SubSeq(line, Len(MergeKey) + 1, Len(line)))[1]

\* The tokens of the lines of that form, in document order, from line i on.
RECURSIVE ExpectedNames(_, _)
ExpectedNames(doc, i) ==
    IF i > Len(doc) THEN <<>>
    ELSE (IF HasMergeForm(doc[i]) THEN << TokenOf(doc[i]) >> ELSE <<>>)
           \o ExpectedNames(doc, i + 1)

\* C14: parse_dependency_list returns the tokens of the ">merge pkg=<token>"
\* lines in order, duplicates kept, and nothing for any other line.  Manifests
\* with a nameless ">merge pkg=" line are the matter of C13 and left out here.
C14_NamesOfMergeLines ==
    (Len(returns) >= 1 /\ \A i \in 1..Len(document) : ~EmptyName(document[i])) =>
        /\ returns[1].raised = ""
        /\ returns[1].parents = ExpectedNames(document, 1)

\* ------------------------------------------------------------ traversal order
\* What n's manifest declares, as far as the repository has shown it.
DeclaredSeq(n) ==
    IF n \in DOMAIN pkg_list /\ UrlOf(n) \in DOMAIN manifests
    THEN manifests[UrlOf(n)]
    ELSE <<>>

\* The depth-first pre-order of first visits over the declared relation:
\* order holds the names visited so far.
RECURSIVE Dfs(_, _)
RECURSIVE DfsChildren(_, _, _)
DfsChildren(deps, k, order) ==
    IF k > Len(deps) THEN order
    ELSE DfsChildren(deps, k + 1, Dfs(deps[k], order))

Dfs(n, order) ==
    IF \E k \in 1..Len(order) : order[k] = n THEN order
    ELSE DfsChildren(DeclaredSeq(n), 1, Append(order, n))

\* The manifest URLs of that order from the root of the current run.
DfsUrls ==
    LET order == Dfs(pkg_name, <<>>)
    IN  [k \in 1..Len(order) |->
            IF order[k] \in DOMAIN pkg_list THEN UrlOf(order[k]) ELSE ""]

FetchedSeq == [i \in 1..Len(fetched) |-> fetched[i].url]

IsPrefix(s, t) == Len(s) <= Len(t) /\ SubSeq(t, 1, Len(s)) = s

\* C15: at every moment of a run the manifests fetched so far are the
\* beginning of the depth-first pre-order of first visits from the root,
\* dependencies in declared order, and when build_dependency_tree has
\* returned they are the whole of it.
C15_FetchOrderIsPreorder ==
    (calls >= 1 /\ pkg_name \in DOMAIN pkg_list) =>
        /\ IsPrefix(FetchedSeq, DfsUrls)
        /\ status \in {"built", "plotted"} => FetchedSeq = DfsUrls

\* ------------------------------------------------------------ children
\* C16: every object whose parents line 163 has bound has, as the names of
\* its children in order, exactly the names its manifest declares, those
\* already in pkgs_in_tree and those declared twice included.
C16_ChildrenAreDeclared ==
    \A k \in Expanded : ChildNames(k) = manifests[ManifestUrl(heap[k])]

\* An object got two children of one name, and another a child whose name
\* was in pkgs_in_tree when it was bound.
C16_Witness ==
    /\ status = "built"
    /\ \E k \in Expanded :
          \E i, j \in 1..Len(heap[k].parents) : i < j /\ ChildNames(k)[i] = ChildNames(k)[j]
    /\ \E k \in Expanded :
          \E i \in 1..Len(heap[k].parents) : ChildNames(k)[i] = heap[1].name

\* ------------------------------------------------------------ malformed index lines
DataLines(doc) == { j \in 1..Len(doc) : DataLine(doc, j) }

\* C17: parse_package_list returns a mapping for every line sequence; its
\* keys are the names of the lines of 3 or 4 tokens, so a line of another
\* token count adds no key, and a name whose last line has 3 tokens gets the
\* empty directory.
C17_MalformedSkipped ==
    Len(returns) >= 1 =>
        /\ returns[1].raised = ""
        /\ DOMAIN returns[1].packages
             = { NameOn(document[j]) : j \in DataLines(document) }
        /\ \A i \in DataLines(document) :
              (/\ Len(Split(document[i])) = 3
               /\ \A j \in LinesNaming(document, i) : j <= i) =>
                  returns[1].packages[NameOn(document[i])][3] = ""

\* ------------------------------------------------------------ the layout of the output
\* The node and edge declarations there are over the names of current.list.
NodeDecls == { NodeDecl(n) : n \in DOMAIN pkg_list }

EdgeDecls == { EdgeDecl(x, y) : x, y \in DOMAIN pkg_list }

\* The number of pieces the subtree below object k takes in the output.
RECURSIVE SubtreeLen(_)
RECURSIVE SubtreesLen(_, _)
SubtreesLen(k, n) ==
    IF n = 0 THEN 0
    ELSE SubtreesLen(k, n - 1) + SubtreeLen(heap[k].parents[n])

SubtreeLen(k) == 2 * Len(heap[k].parents) + SubtreesLen(k, Len(heap[k].parents))

\* From position start on the output holds, for object k, the declaration
\* and the edge of each child in child order, and only then the subtrees of
\* the children, each laid out the same way.
RECURSIVE LaidOut(_, _)
LaidOut(k, start) ==
    LET c == Len(heap[k].parents)
    IN  /\ \A i \in 1..c :
              /\ plot[start + 2 * (i - 1)] = NodeDecl(heap[heap[k].parents[i]].name)
              /\ plot[start + 2 * i - 1]
                   = EdgeDecl(heap[k].name, heap[heap[k].parents[i]].name)
        /\ \A i \in 1..c :
              LaidOut(heap[k].parents[i], start + 2 * c + SubtreesLen(k, i - 1))

\* C18: the output of a tree of E links (E + 1 objects) holds E edge
\* declarations and E + 1 node declarations, repeated names included, and
\* below every object the declarations and edges of all its children come
\* before the subtree of any of them.
C18_OutputLayout ==
    status = "plotted" =>
        /\ \E edges \in { EdgeDecls } :
              Cardinality({ i \in 1..Len(plot) : plot[i] \in edges }) = Len(heap) - 1
        /\ \E nodes \in { NodeDecls } :
              Cardinality({ i \in 1..Len(plot) : plot[i] \in nodes }) = Len(heap)
        /\ Len(plot) = 2 * Len(heap) + 2
        /\ plot[3] = NodeDecl(heap[1].name)
        /\ LaidOut(1, 4)

\* A rendered tree where the root has two children, the first of them has
\* a child of its own, and one name hangs at two places.
C18_Witness ==
    /\ status = "plotted"
    /\ Len(heap[1].parents) = 2
    /\ heap[heap[1].parents[1]].parents # <<>>
    /\ \E i, j \in 2..Len(heap) : i # j /\ heap[i].name = heap[j].name

\* ------------------------------------------------------------ pkgs_in_tree
\* The names whose manifest the current run fetched without an error and
\* whose declared names current.list all holds.
Resolved ==
    { n \in DOMAIN pkg_list :
        \E i \in 1..Len(fetched) :
            /\ fetched[i].url = UrlOf(n)
            /\ fetched[i].raised = ""
            /\ ~DeclaresUnknown(i) }

\* C19: in a run begun with an empty pkgs_in_tree the list holds exactly the
\* names whose manifest was fetched and whose dependencies were all found in
\* current.list, each once; and no step of any run takes an entry out of it.
C19_ListIsResolved ==
    /\ []((calls >= 1 /\ entry_list = <<>>) =>
            /\ { pkgs_in_tree[k] : k \in 1..Len(pkgs_in_tree) } = Resolved
            /\ \A i, j \in 1..Len(pkgs_in_tree) :
                  i # j => pkgs_in_tree[i] # pkgs_in_tree[j])
    /\ [][IsPrefix(pkgs_in_tree, pkgs_in_tree')]_vars

\* A run begun with an empty list resolved some packages and then failed on
\* the manifest of another, whose name stayed out of the list.
C19_Witness ==
    /\ status \in {"URLError", "KeyError"}
    /\ entry_list = <<>>
    /\ Len(pkgs_in_tree) >= 2
    /\ Len(fetched) = Len(pkgs_in_tree) + 1

====
